---- MODULE Spec2Model ----
(***************************************************************************)
(* Controls orchestrator of <model-viewer> (ControlsMixin): the            *)
(* interaction-prompt state machine, its idle timer, the focus/blur and    *)
(* controller-change handlers and the aria-label of the canvas.            *)
(*                                                                         *)
(* Time is performance.now() in milliseconds.  Angles are kept in whole    *)
(* degrees (PHI = one turn = 360).                                         *)
(***************************************************************************)
EXTENDS Integers, Sequences, FiniteSets, TLC

VARIABLES
  cameraControls,              \* property camera-controls
  interactionPrompt,           \* property interaction-prompt
  interactionPromptThreshold,  \* property interaction-prompt-threshold
  promptElementVisible,        \* this[$promptElementVisible]
  promptClassVisible,          \* 'visible' in this[$promptElement].classList
  userPromptedOnce,            \* this[$userPromptedOnce]
  waitingToPromptUser,         \* this[$waitingToPromptUser]
  shouldPromptUserToInteract,  \* this[$shouldPromptUserToInteract]
  lastSpherical,               \* this[$lastSpherical] (theta, phi)
  ariaLabel,                   \* canvas attribute aria-label
  controlsInteraction,         \* SmoothControls: interaction enabled
  changeListener,              \* 'change' listener registered on the controls
  focusListeners,              \* focus/blur listeners registered on the canvas
  focused,                     \* rootNode.activeElement === this
  loaded,                      \* this.loaded (base element)
  loadedTime,                  \* this[$loadedTime] (base element)
  now,                         \* performance.now() of the latest frame or load
  dispatched,                  \* the 'camera-change' events the last handler
                               \* dispatched, each with what a listener saw
  last,                        \* history: the handler that ran last, its inputs
                               \* and the prompt state it started from
  fbtOnly,                     \* history: the prompt has been shown and only
                               \* focus, blur and tick have run since
  \* the camera target: the controller's and the scene's copy of it
  controlsTarget,              \* controls.getTarget(): the controller's target
  goalTarget,                  \* the target the controller moves toward
  pivotCenter,                 \* scene.pivotCenter
  pivotRotationY,              \* scene.pivot.rotation.y, in 1/100 rad
  sceneRotation,               \* the yaw last applied by scene.setRotation
  pivotWritten,                \* history: the latest tick or sync of the
                               \* target wrote pivotCenter
  \* the framing of the camera.  Fields of view are in degrees; the
  \* controller's are fractions [n, d] in lowest terms
  fieldOfView,                 \* this.fieldOfView, the attribute
  framedFieldOfView,           \* this[$framedFieldOfView], NoFraming for null
  sceneAspect,                 \* scene.aspect
  sceneModel,                  \* scene.model: fieldOfViewAspect,
                               \* idealCameraDistance
  fov,                         \* controls.getFieldOfView()
  fovGoal,                     \* the field of view the controller moves toward
  maximumFieldOfView,          \* controller option maximumFieldOfView
  maximumRadius,               \* controller option maximumRadius
  \* the deferred jump of the camera to its goal
  jumpCamera,                  \* this[$jumpCamera]
  updateRequested,             \* requestUpdate was called and updated() has
                               \* not run since
  continuations,               \* continuations queued by Promise.resolve()
                               \* .then(...) that have not run yet
  \* the azimuthal-quadrant bucketing of $updateAria, applied on its own
  azTheta,                     \* theta, the camera's azimuth
  azTurn,                      \* full turns added to theta so far
  azComputed,                  \* the quadrant of theta + azTurn turns is computed
  azQuadrant,                  \* ... and is this
  azBase,                      \* the quadrant computed for theta itself
  \* the PMREMGenerator
  numLods,                     \* this.numLods
  cubeLods,                    \* this.cubeLods, the LOD render targets
  objects,                     \* this.objects, the packing quads
  cubeCamera,                  \* this.cubeCamera: its render target's width
  cubeUVRenderTarget,          \* this.cubeUVRenderTarget, the atlas
  flatCamera,                  \* this.flatCamera
  cubeTarget,                  \* the source cubemap of the update under way
  pmremPc,                     \* how far the update under way has got
  mipmapPasses,                \* the passes of the latest generateMipmaps
  packed,                      \* the quads the latest packMipmaps rendered
  updates,                     \* the update calls made so far
  renderer,                    \* the WebGLRenderer's settings and render target
  renders,                     \* the renderer as each render of the latest pass saw it
  packingScene,                \* the number of quads in this.packingScene
  \* the attribute-string converters
  valueNodes,                  \* the ValueNodes parseValues returned
  deserialized,                \* what each converter made of them
  \* the aria bucketing on its own
  viewSpherical,               \* the camera's theta and phi
  viewBuckets,                 \* the quadrant, trient and label computed for it
  \* the annotation mixin
  hostChildren,                \* this.children, in document order
  hotspotMap,                  \* this[$hotspotMap]: element -> Hotspot
  pivotHotspots,               \* the Hotspot objects among scene.pivot.children
  hotspots,                    \* every Hotspot constructed so far, by identity
  observing,                   \* this[$observer] is observing the child list
  records,                     \* the observer's mutation records not yet delivered
  annotationConnected,         \* the element is connected
  updateHotspotResult          \* how the latest updateHotspot call ended

pmremVars == <<numLods, cubeLods, objects, cubeCamera, cubeUVRenderTarget,
               flatCamera, cubeTarget, pmremPc, mipmapPasses, packed,
               updates, renderer, renders, packingScene>>

quadrantVars == <<azTheta, azTurn, azComputed, azQuadrant, azBase>>

\* what no handler of the element touches
converterVars == <<valueNodes, deserialized>>

bucketVars == <<viewSpherical, viewBuckets>>

annotationVars == <<hostChildren, hotspotMap, pivotHotspots, hotspots,
                    observing, records, annotationConnected,
                    updateHotspotResult>>

outside == <<quadrantVars, pmremVars, converterVars, bucketVars,
             annotationVars>>

targetVars == <<controlsTarget, goalTarget, pivotCenter, pivotRotationY,
                sceneRotation, pivotWritten>>

framingVars == <<fieldOfView, framedFieldOfView, sceneAspect, sceneModel, fov,
                 fovGoal, maximumFieldOfView, maximumRadius>>

jumpVars == <<jumpCamera, updateRequested, continuations>>

promptVars == <<cameraControls, interactionPrompt,
          interactionPromptThreshold, promptElementVisible, promptClassVisible,
          userPromptedOnce, waitingToPromptUser, shouldPromptUserToInteract,
          lastSpherical, ariaLabel, controlsInteraction,
          changeListener, focusListeners, focused, loaded, loadedTime, now,
          dispatched, last, fbtOnly>>

controlsVars == <<promptVars, targetVars, framingVars, jumpVars>>

vars == <<controlsVars, outside>>

-----------------------------------------------------------------------------
(* Bounds of the model *)

MaxTheta == 800     \* the azimuths bucketed on their own: -MaxTheta..MaxTheta
MaxTurns == 2       \* full turns added to an azimuth
MaxPoint == 2       \* camera targets are the points 0..MaxPoint
MaxOffset == 1      \* the prompt is up to MaxOffset pixels off centre
MaxContinuations == 2   \* continuations queued at one time
MaxSizeExponent == 9    \* source cubemaps have faces of 2^0 .. 2^MaxSizeExponent
MaxUpdates == 3     \* update calls on one PMREMGenerator
MaxTokens == 3      \* value nodes parsed from one attribute string
MaxHotspots == 3    \* Hotspot objects constructed on one element
MaxRecords == 2     \* mutation records waiting to be delivered
MaxSources == 2     \* distinct source cubemaps of one size
MaxTime == 2        \* frames and loads happen at multiples of the default
                    \* threshold, up to MaxTime of them

-----------------------------------------------------------------------------
(* Program constants *)

AUTO == "auto"
WHEN_FOCUSED == "when-focused"
NONE == "none"
InteractionPromptStrategy == {AUTO, WHEN_FOCUSED, NONE}

USER_INTERACTION == "user-interaction"
NO_SOURCE == "none"
ChangeSource == {USER_INTERACTION, NO_SOURCE}

DEFAULT_INTERACTION_PROMPT_THRESHOLD == 3000
INTERACTION_PROMPT == "Use mouse, touch or arrow keys to control the camera!"

HALF_PI == 90
THIRD_PI == 60
QUARTER_PI == HALF_PI \div 2
PHI == 360

AZIMUTHAL_QUADRANT_LABELS == <<"front", "right", "back", "left">>
POLAR_TRIENT_LABELS == <<"upper-", "", "lower-">>

\* this[$ariaLabel]: the element's own label (alt text)
ARIA_LABEL == "3D model"

\* values of interaction-prompt-threshold the page sets
Thresholds == {0, DEFAULT_INTERACTION_PROMPT_THRESHOLD}

\* values of performance.now() at a frame or a load
Times == {t * DEFAULT_INTERACTION_PROMPT_THRESHOLD : t \in 0..MaxTime}

\* camera positions (theta, phi) the controller reports on a change event
Sphericals == {[theta |-> -100, phi |-> 75]}

DEFAULT_FIELD_OF_VIEW == "auto"
DEFAULT_FOV_DEG == 45
NoFraming == 0      \* this[$framedFieldOfView] = null
NoMaximum == 180    \* the controller before any maximumFieldOfView is applied

\* scene.aspect, the width of the viewport over its height
Aspects == {1, 2}

\* the models that load: fieldOfViewAspect and idealCameraDistance
Models == {[fieldOfViewAspect |-> f, idealCameraDistance |-> f] : f \in {1, 2, 4}}

\* the model of the element whose size does not change
FixedModels == {[fieldOfViewAspect |-> 1, idealCameraDistance |-> 1]}

\* scene.model before any model has loaded
EmptyModel == [fieldOfViewAspect |-> 1, idealCameraDistance |-> 0]

\* the attribute field-of-view and what the styling layer evaluates it to
FieldOfViews == {DEFAULT_FIELD_OF_VIEW, "30deg"}
EvaluatedFieldOfView(attr) ==
  IF attr = DEFAULT_FIELD_OF_VIEW THEN DEFAULT_FOV_DEG ELSE 30

\* the fields of view a user zooms to
ZoomGoals == {15, 60}

\* the points a camera target can be at (a point stands for an x, y, z)
Points == 0 .. MaxPoint

\* promptOffset: the viewer's centre minus the prompt's centre, in pixels
Offsets == -MaxOffset .. MaxOffset

\* ... and the wider sample SpecAria draws from: every quadrant, both signs
\* of theta, more than a full turn, every trient and phi = pi
AriaThetas == {-400, -100, 50, 200}
AriaPhis == {75, 130, 180}
AriaSphericals == {[theta |-> t, phi |-> p] : t \in AriaThetas, p \in AriaPhis}

\* the observed properties whose change updated() acts on.  A change of
\* interaction-policy only forwards the value to the controller
\* (controls.applyOptions); like a change of any other property it is an
\* update with none of these keys
Props == {"cameraControls", "interactionPrompt", "src"}

-----------------------------------------------------------------------------
(* Pure helpers *)

\* JavaScript a % b for b > 0: the result has the sign of a
JsRem(a, b) == IF a >= 0 THEN a % b ELSE -((-a) % b)

\* mutant: theta is bucketed without first being reduced modulo a full turn
AzimuthalQuadrant_NoWrap(theta) ==
  JsRem(4 + ((theta + QUARTER_PI) \div HALF_PI), 4)

AzimuthalQuadrant(theta) ==
  JsRem(4 + ((JsRem(theta, PHI) + QUARTER_PI) \div HALF_PI), 4)

\* Math.round in place of Math.floor
PolarTrient_Rounded(phi) == (phi + THIRD_PI \div 2) \div THIRD_PI

PolarTrient(phi) == phi \div THIRD_PI

Label(labels, i) == IF (i + 1) \in DOMAIN labels THEN labels[i + 1] ELSE "undefined"

ViewLabel(sph) ==
  "View from stage " \o Label(POLAR_TRIENT_LABELS, PolarTrient(sph.phi))
                     \o Label(AZIMUTHAL_QUADRANT_LABELS, AzimuthalQuadrant(sph.theta))

-----------------------------------------------------------------------------
(* The prompt state as one value, and the handlers' effect on it *)

PromptState ==
  [waiting |-> waitingToPromptUser,
   visible |-> promptElementVisible,
   cls     |-> promptClassVisible,
   once    |-> userPromptedOnce,
   should  |-> shouldPromptUserToInteract]

SetPrompt(p) ==
  /\ waitingToPromptUser' = p.waiting
  /\ promptElementVisible' = p.visible
  /\ promptClassVisible' = p.cls
  /\ userPromptedOnce' = p.once
  /\ shouldPromptUserToInteract' = p.should

\* a focus event has been handled since the last blur, src change or defer
FocusEventSince(op, changed, source) ==
  CASE op = "focus" -> TRUE
    [] op = "blur" -> FALSE
    [] op = "updated" /\ "src" \in changed -> FALSE
    [] op = "updated" /\ "cameraControls" \in changed /\ ~cameraControls' -> FALSE
    [] op = "change" /\ source = USER_INTERACTION -> FALSE
    [] OTHER -> last.focusEvent

Record(op, changed, source) ==
  last' = [op |-> op, changed |-> changed, source |-> source,
           focusEvent |-> FocusEventSince(op, changed, source),
           pre |-> [waiting |-> waitingToPromptUser,
                    visible |-> promptElementVisible,
                    once |-> userPromptedOnce,
                    should |-> shouldPromptUserToInteract,
                    aria |-> ariaLabel]]

\* mutant: the defer forgets the latch
DeferInteractionPrompt_NoLatch(p) ==
  [p EXCEPT !.waiting = FALSE, !.visible = FALSE, !.cls = FALSE]

DeferInteractionPrompt(p) ==
  [p EXCEPT !.waiting = FALSE,
            !.visible = FALSE,
            !.cls = FALSE,
            !.should = IF p.once THEN FALSE ELSE @]

\* mutant: enabling the controls starts the timer whatever the strategy
UpdatedCameraControls_AnyStrategy(p, changed, cc, ip) ==
  IF "cameraControls" \notin changed THEN p
  ELSE IF cc THEN [p EXCEPT !.waiting = TRUE]
  ELSE DeferInteractionPrompt(p)

\* mutant: disabling the controls leaves the prompt and its timer alone
UpdatedCameraControls_NoDeferOnDisable(p, changed, cc, ip) ==
  IF "cameraControls" \notin changed THEN p
  ELSE IF cc THEN (IF ip = AUTO THEN [p EXCEPT !.waiting = TRUE] ELSE p)
  ELSE p

\* updated(): the branch on changedProperties.has('cameraControls')
UpdatedCameraControls(p, changed, cc, ip) ==
  IF "cameraControls" \notin changed THEN p
  ELSE IF cc THEN (IF ip = AUTO THEN [p EXCEPT !.waiting = TRUE] ELSE p)
  ELSE DeferInteractionPrompt(p)

\* mutant: setting the strategy starts the timer whatever the strategy is
UpdatedInteractionPrompt_AnyStrategy(p, changed, cc, ip) ==
  IF "interactionPrompt" \in changed /\ cc
  THEN [p EXCEPT !.waiting = TRUE]
  ELSE p

\* updated(): the branch on changedProperties.has('interactionPrompt')
UpdatedInteractionPrompt(p, changed, cc, ip) ==
  IF "interactionPrompt" \in changed /\ ip = AUTO /\ cc
  THEN [p EXCEPT !.waiting = TRUE]
  ELSE p

\* mutant: a new src clears the latch
UpdatedSrc_ResetsLatch(p, changed) ==
  IF "src" \in changed
  THEN [DeferInteractionPrompt(p) EXCEPT !.waiting = TRUE, !.should = TRUE]
  ELSE p

\* mutant: a new src restarts the timer without deferring first
UpdatedSrc_NoDefer(p, changed) ==
  IF "src" \in changed THEN [p EXCEPT !.waiting = TRUE] ELSE p

\* updated(): the branch on changedProperties.has('src')
UpdatedSrc(p, changed) ==
  IF "src" \in changed
  THEN [DeferInteractionPrompt(p) EXCEPT !.waiting = TRUE]
  ELSE p

\* mutant: the timer runs out when the threshold is reached, not passed
ThresholdCrossed_AtLeast(time) ==
  loaded /\ time >= loadedTime + interactionPromptThreshold

\* $tick: the idle timer has run out
ThresholdCrossed(time) ==
  loaded /\ time > loadedTime + interactionPromptThreshold

\* mutant: the tick ignores the prompt strategy
ShowsPrompt_AnyStrategy(p, time) == p.waiting /\ ThresholdCrossed(time)

ShowsPrompt(p, time) ==
  p.waiting /\ interactionPrompt # NONE /\ ThresholdCrossed(time)

TickPrompt(p, time) ==
  IF ShowsPrompt(p, time)
  THEN [p EXCEPT !.once = TRUE, !.waiting = FALSE, !.visible = TRUE, !.cls = TRUE]
  ELSE p

\* mutant: focus restarts the timer whatever the latch says
OnFocusPrompt_NoLatch(p) == [p EXCEPT !.waiting = TRUE]

\* mutant: focus never starts the timer
OnFocusPrompt_Never(p) == p

OnFocusPrompt(p) == IF p.should THEN [p EXCEPT !.waiting = TRUE] ELSE p

\* mutant: blur re-arms the latch
OnBlurPrompt_ResetsLatch(p) ==
  [p EXCEPT !.waiting = FALSE, !.visible = FALSE, !.cls = FALSE, !.should = TRUE]

\* mutant: blur hides the prompt but leaves the timer running
OnBlurPrompt_KeepsTimer(p) == [p EXCEPT !.visible = FALSE, !.cls = FALSE]

OnBlurPrompt(p) == [p EXCEPT !.waiting = FALSE, !.visible = FALSE, !.cls = FALSE]

\* mutant: every change event defers, whatever its source
OnChangePrompt_AnySource(p, source) == DeferInteractionPrompt(p)

OnChangePrompt(p, source) ==
  IF source = USER_INTERACTION THEN DeferInteractionPrompt(p) ELSE p

\* mutant: focus restores the label only when nothing has overwritten it
OnFocusAria_KeepsOverwritten(label) == label

\* $onFocus: the aria-label after the focus event
OnFocusAria(label) == IF label # ARIA_LABEL THEN ARIA_LABEL ELSE label

\* mutant: the label is rewritten whether or not the element holds focus
UpdateAria_IgnoresFocus(sph) ==
  IF \/ AzimuthalQuadrant(sph.theta) # AzimuthalQuadrant(lastSpherical.theta)
     \/ PolarTrient(sph.phi) # PolarTrient(lastSpherical.phi)
  THEN ViewLabel(sph)
  ELSE ariaLabel

\* $updateAria: the label after a change event that moved the camera to sph
UpdateAria(sph) ==
  IF focused
     /\ (\/ AzimuthalQuadrant(sph.theta) # AzimuthalQuadrant(lastSpherical.theta)
         \/ PolarTrient(sph.phi) # PolarTrient(lastSpherical.phi))
  THEN ViewLabel(sph)
  ELSE ariaLabel

\* fractions in lowest terms
RECURSIVE GCD(_, _)
GCD(a, b) == IF b = 0 THEN a ELSE GCD(b, a % b)

Frac(n, d) == LET g == GCD(n, d) IN [n |-> n \div g, d |-> d \div g]

FracLeq(a, b) == a.n * b.d <= b.n * a.d

\* 2 * atan(tan(HALF_FIELD_OF_VIEW_RADIANS) * max(1, fieldOfViewAspect /
\* aspect)) * 180 / pi, to the degree, for the aspects of Models and Aspects
FramedFieldOfView(fieldOfViewAspect, aspect) ==
  IF fieldOfViewAspect <= aspect THEN DEFAULT_FOV_DEG
  ELSE IF fieldOfViewAspect = 2 * aspect THEN 79
  ELSE 118

\* the controller's setFieldOfView: the goal, kept under the maximum
ClampFieldOfView(f, maximum) ==
  IF FracLeq(f, Frac(maximum, 1)) THEN f ELSE Frac(maximum, 1)

\* mutant: re-framing resets the zoom
Reframed_ResetsZoom(framed, newFramed, current) == Frac(newFramed, 1)

\* mutant: the zoom is taken against the new framed value
Reframed_ZoomAfterFraming(framed, newFramed, current) == current

\* $updateCamera: zoom * framedFieldOfView, the zoom being the current field
\* of view over the previous framed value, or 1 when there is none
Reframed(framed, newFramed, current) ==
  IF framed # NoFraming
  THEN Frac(current.n * newFramed, current.d * framed)
  ELSE Frac(newFramed, 1)

\* controls.update(time, delta): the damped field of view after the frame,
\* anywhere from where it was to its goal
FovUpdate(current, goal) ==
  {current, goal} \cup
  {Frac(z, 1) : z \in {y \in ZoomGoals :
     \/ FracLeq(current, Frac(y, 1)) /\ FracLeq(Frac(y, 1), goal)
     \/ FracLeq(goal, Frac(y, 1)) /\ FracLeq(Frac(y, 1), current)}}

\* mutant: updated() sees the flag and queues nothing
UpdatedJump_Dropped(flag, queued) == queued

\* updated(): if (this[$jumpCamera] === true) Promise.resolve().then(...):
\* the continuations queued after the pass
UpdatedJump(flag, queued) == IF flag = TRUE THEN queued + 1 ELSE queued

\* $tick: the nudge, pivot.rotation.y = promptOffset * -0.01 while the prompt
\* is visible
Nudge(visible, rotationY, promptOffset) ==
  IF visible THEN -promptOffset ELSE rotationY

\* controls.update(time, delta): the damped target after the frame, anywhere
\* from where it was to its goal
ControlsUpdate(target, goal) ==
  {p \in Points : \/ (target <= p /\ p <= goal)
                  \/ (goal <= p /\ p <= target)}

\* mutant: the pivot centre and the yaw are written on every frame
PivotSync_Always(center, rotation, target, rotationY) ==
  [center |-> target, rotation |-> rotationY, wrote |-> TRUE]

\* mutant: the pivot centre is written but the yaw is not re-applied
PivotSync_NoYaw(center, rotation, target, rotationY) ==
  IF center # target
  THEN [center |-> target, rotation |-> rotation, wrote |-> TRUE]
  ELSE [center |-> center, rotation |-> rotation, wrote |-> FALSE]

\* $tick: if (!pivotCenter.equals(target)) { pivotCenter.copy(target);
\* setRotation(pivot.rotation.y) }
PivotSync(center, rotation, target, rotationY) ==
  IF center # target
  THEN [center |-> target, rotation |-> rotationY, wrote |-> TRUE]
  ELSE [center |-> center, rotation |-> rotation, wrote |-> FALSE]

\* mutant: the event is dispatched before the prompt is deferred
DispatchCameraChange_BeforeDefer(source, sph) ==
  <<[source |-> source, aria |-> UpdateAria(sph), prompt |-> PromptState]>>

\* mutant: the event does not carry the source
DispatchCameraChange_NoSource(source, sph) ==
  <<[source |-> NO_SOURCE, aria |-> UpdateAria(sph),
     prompt |-> OnChangePrompt(PromptState, source)]>>

\* $onChange: dispatchEvent(new CustomEvent('camera-change', {detail:
\* {source}})), the last statement of the handler: one event, whose listeners
\* see the aria-label and the prompt state the handler leaves
DispatchCameraChange(source, sph) ==
  <<[source |-> source, aria |-> UpdateAria(sph),
     prompt |-> OnChangePrompt(PromptState, source)]>>

-----------------------------------------------------------------------------
(* The PMREMGenerator: render targets, packing quads and the atlas *)

NUM_LODS == 8

NoCubeCamera == 0   \* this.cubeCamera = null
NoRenderTarget == [width |-> 0, height |-> 0]
NoCubeTarget == [kind |-> "none", id |-> 0, width |-> 0]

\* the source cubemaps update is called with
Sources ==
  {[kind |-> "source", id |-> n, width |-> 2^e] :
     n \in 1..MaxSources, e \in 0..MaxSizeExponent}

\* new WebGLRenderTargetCube(sizeLod, sizeLod, params), named
\* 'PMREMGenerator.cube' + i
LodTarget(i) == [kind |-> "lod", id |-> i, width |-> 2^i]

\* addLodObjects(target, offset): the six quads of one level
AddLodObjects(target, offset) ==
  LET sizePad == target.width + 2
  IN [j \in 1..6 |->
        [x |-> ((j - 1) % 3) * sizePad,
         y |-> (IF j - 1 > 2 THEN 1 ELSE 0) * sizePad + offset,
         scale |-> sizePad,
         envMap |-> target,
         faceIndex |-> j - 1]]

\* setup: the loop over the levels i, i + 1, .. NUM_LODS
RECURSIVE SetupLods(_, _, _, _, _)
SetupLods(i, lods, objs, offset, source) ==
  IF i >= NUM_LODS + 1
  THEN [cubeLods |-> lods, objects |-> objs]
  ELSE LET sizeLod == 2^i
           sizePad == sizeLod + 2
       IN IF Len(lods) <= i
          THEN IF sizeLod = source.width
               THEN SetupLods(i + 1, lods,
                              objs \o AddLodObjects(source, offset),
                              offset + 2 * sizePad, source)
               ELSE SetupLods(i + 1, Append(lods, LodTarget(i)),
                              objs \o AddLodObjects(LodTarget(i), offset),
                              offset + 2 * sizePad, source)
          ELSE SetupLods(i + 1, lods, objs, offset + 2 * sizePad, source)

\* mutant: the atlas has no room for the padding of the tiles
AtlasWidth_NoPadding(n) == 3 * (2^n)

\* setup: the width of the new WebGLRenderTarget
AtlasWidth(n) == 3 * (2^n + 2)

\* mutant: the atlas is as high as the levels below the top one only
AtlasHeight_OneLevelShort(n) == 4 * n + 2 * (2^n - 1)

\* setup: the height of the new WebGLRenderTarget
AtlasHeight(n) == 4 * n + 2 * (2^(n + 1) - 1)

-----------------------------------------------------------------------------
(* Initial state: the element after construction *)

InitControls ==
  /\ cameraControls = FALSE
  /\ interactionPrompt = AUTO
  /\ interactionPromptThreshold = DEFAULT_INTERACTION_PROMPT_THRESHOLD
  /\ promptElementVisible = FALSE
  /\ promptClassVisible = FALSE
  /\ userPromptedOnce = FALSE
  /\ waitingToPromptUser = FALSE
  /\ shouldPromptUserToInteract = TRUE
  /\ lastSpherical = [theta |-> 0, phi |-> 0]
  /\ ariaLabel = ARIA_LABEL
  /\ controlsInteraction = FALSE
  /\ changeListener = FALSE
  /\ focusListeners = FALSE
  /\ focused = FALSE
  /\ loaded = FALSE
  /\ loadedTime = 0
  /\ now = 0
  /\ dispatched = <<>>
  /\ last = [op |-> "init", changed |-> {}, source |-> NO_SOURCE,
             focusEvent |-> FALSE,
             pre |-> [waiting |-> FALSE, visible |-> FALSE,
                      once |-> FALSE, should |-> TRUE, aria |-> ARIA_LABEL]]
  /\ fbtOnly = FALSE
  /\ controlsTarget = 0
  /\ goalTarget = 0
  /\ pivotCenter = 0
  /\ pivotRotationY = 0
  /\ sceneRotation = 0
  /\ pivotWritten = FALSE
  /\ fieldOfView = DEFAULT_FIELD_OF_VIEW
  /\ framedFieldOfView = NoFraming
  /\ sceneAspect = 1
  /\ sceneModel = EmptyModel
  /\ fov = Frac(DEFAULT_FOV_DEG, 1)
  /\ fovGoal = Frac(DEFAULT_FOV_DEG, 1)
  /\ maximumFieldOfView = NoMaximum
  /\ maximumRadius = 0
  /\ jumpCamera = FALSE
  /\ updateRequested = FALSE
  /\ continuations = 0

\* the bucketing is about to be applied to theta
QuadrantAt(theta) ==
  /\ azTheta = theta
  /\ azTurn = 0
  /\ azComputed = FALSE
  /\ azQuadrant = 0
  /\ azBase = 0

\* the units a ValueNode carries; "none" is a number without unit
Units == {"none", "m", "cm", "mm", "%", "deg", "rad"}

\* the ValueNodes of parseValues: a value that parseFloat reads as the number
\* n, or one it reads as NaN (such as auto), and the unit
ValueNodes ==
  {[numeric |-> b, n |-> IF b THEN 2 ELSE 0, unit |-> u] :
     b \in BOOLEAN, u \in Units}

\* the lists parseValues returns for strings of up to MaxTokens tokens
ValueNodeLists == UNION {[1..k -> ValueNodes] : k \in 0..MaxTokens}

\* lengths and factors are counted in units of 1 / Meter
Meter == 100000

\* a length or factor of defaultValues, or null
Number(n) == [null |-> FALSE, n |-> n]
Null == [null |-> TRUE, n |-> 0]

\* an angle: the number value as parsed, or as ThreeMath.degToRad or
\* ThreeMath.radToDeg turned it
Angle(value) == [value |-> value, converted |-> "no"]
DegToRad(value) == [value |-> value, converted |-> "degToRad"]
RadToDeg(value) == [value |-> value, converted |-> "radToDeg"]

\* property access on vectorValueNodes[i]: a TypeError when the list has no
\* such node
NodeAt(nodes, i) ==
  IF i \in DOMAIN nodes THEN [threw |-> FALSE, node |-> nodes[i]]
  ELSE [threw |-> TRUE, node |-> [numeric |-> FALSE, n |-> 0, unit |-> "none"]]

lengthValueNodeToMeters(lengthValueNode, defaultMeters) ==
  IF ~lengthValueNode.numeric THEN defaultMeters
  ELSE CASE lengthValueNode.unit = "cm" -> (lengthValueNode.n * Meter) \div 100
         [] lengthValueNode.unit = "mm" -> (lengthValueNode.n * Meter) \div 1000
         [] OTHER -> lengthValueNode.n * Meter

convertAngleValueNode(angleValueNode, defaultRadians, desiredUnits) ==
  IF ~angleValueNode.numeric THEN defaultRadians
  ELSE IF angleValueNode.unit = "deg"
       THEN IF desiredUnits = "deg" THEN Angle(angleValueNode.n)
            ELSE DegToRad(angleValueNode.n)
       ELSE IF desiredUnits = "deg" THEN RadToDeg(angleValueNode.n)
            ELSE Angle(angleValueNode.n)

\* the result of a converter that has not been called
NotConverted ==
  [done |-> FALSE, threw |-> FALSE, defaults |-> <<>>, value |-> <<>>]

Returned(defaults, value) ==
  [done |-> TRUE, threw |-> FALSE, defaults |-> defaults, value |-> value]

Threw(defaults) ==
  [done |-> TRUE, threw |-> TRUE, defaults |-> defaults, value |-> <<>>]

\* defaultValues is <<theta, phi, radius, factor>>
deserializeSpherical(sphericalValueNodes, defaultValues) ==
  IF Len(sphericalValueNodes) = 3
  THEN LET thetaNode == sphericalValueNodes[1]
           phiNode == sphericalValueNodes[2]
           radiusNode == sphericalValueNodes[3]
           value == lengthValueNodeToMeters(radiusNode,
                      IF defaultValues[3].null THEN defaultValues[4].n
                      ELSE defaultValues[3].n)
       IN Returned(defaultValues,
            <<convertAngleValueNode(thetaNode, defaultValues[1], "rad"),
              convertAngleValueNode(phiNode, defaultValues[2], "rad"),
              IF radiusNode.unit = "%" THEN Null ELSE Number(value),
              IF radiusNode.unit = "%" THEN Number(value \div 100) ELSE Null>>)
  ELSE Returned(defaultValues, defaultValues)

deserializeVector3(vectorValueNodes, defaultValues) ==
  LET x == NodeAt(vectorValueNodes, 1)
      y == NodeAt(vectorValueNodes, 2)
      z == NodeAt(vectorValueNodes, 3)
  IN IF x.threw \/ y.threw \/ z.threw THEN Threw(defaultValues)
     ELSE Returned(defaultValues,
            <<lengthValueNodeToMeters(x.node, defaultValues[1]),
              lengthValueNodeToMeters(y.node, defaultValues[2]),
              lengthValueNodeToMeters(z.node, defaultValues[3])>>)

deserializeAngleToDeg(angleValueNode, defaultDeg) ==
  LET first == NodeAt(angleValueNode, 1)
  IN IF first.threw THEN Threw(<<defaultDeg>>)
     ELSE Returned(<<defaultDeg>>,
                   <<convertAngleValueNode(first.node, defaultDeg, "deg")>>)

\* the defaults the converters are called with: camera-orbit with a radius
\* factor or with a radius, camera-target, field-of-view
SphericalDefaults ==
  {<<Angle(0), DegToRad(75), Null, Number((105 * Meter) \div 100)>>,
   <<Angle(0), DegToRad(75), Number(3 * Meter), Null>>}

Vector3Defaults == <<1 * Meter, 2 * Meter, 3 * Meter>>

\* renderer.getRenderTarget() while the renderer draws to the canvas
Canvas == [kind |-> "canvas", id |-> 0, width |-> 0]

\* a render target of the application
Offscreen == [kind |-> "offscreen", id |-> 0, width |-> 0]

\* the renderer drawing to the canvas with the settings of a new WebGLRenderer
CanvasRenderer ==
  [toneMapping |-> "LinearToneMapping", toneMappingExposure |-> 1,
   gammaInput |-> FALSE, gammaOutput |-> FALSE, renderTarget |-> Canvas]

\* a renderer the application has configured for its own output
ConfiguredRenderer ==
  [toneMapping |-> "ACESFilmicToneMapping", toneMappingExposure |-> 2,
   gammaInput |-> TRUE, gammaOutput |-> TRUE, renderTarget |-> Offscreen]

RendererStates == {CanvasRenderer, ConfiguredRenderer}

\* the settings both passes force before they render into target
LinearRenderer(target) ==
  [toneMapping |-> "LinearToneMapping", toneMappingExposure |-> 1,
   gammaInput |-> FALSE, gammaOutput |-> FALSE, renderTarget |-> target]

\* the PMREMGenerator after construction
InitPMREM ==
  /\ numLods = -1
  /\ cubeLods = <<>>
  /\ objects = <<>>
  /\ cubeCamera = NoCubeCamera
  /\ cubeUVRenderTarget = NoRenderTarget
  /\ flatCamera = [left |-> -1, right |-> 1, top |-> 1, bottom |-> -1,
                   unitDepth |-> FALSE]
  /\ cubeTarget = NoCubeTarget
  /\ pmremPc = "idle"
  /\ mipmapPasses = <<>>
  /\ packed = <<>>
  /\ updates = 0
  /\ renderer = CanvasRenderer
  /\ renders = <<>>
  /\ packingScene = 0

\* no converter has been called on the parsed nodes
ConvertersAt(nodes) ==
  /\ valueNodes = nodes
  /\ deserialized = [spherical |-> NotConverted, vector3 |-> NotConverted,
                     angleToDeg |-> NotConverted]

\* nothing has been computed for the camera position sph
BucketsAt(sph) ==
  /\ viewSpherical = sph
  /\ viewBuckets = [computed |-> FALSE, quadrant |-> 0, trient |-> 0,
                    label |-> ""]

\* updateHotspot has not been called
NotCalled == [outcome |-> "none", name |-> <<>>]

\* the annotation mixin after construction, the element without children
InitAnnotation ==
  /\ hostChildren = <<>>
  /\ hotspotMap = <<>>
  /\ pivotHotspots = {}
  /\ hotspots = <<>>
  /\ observing = FALSE
  /\ records = <<>>
  /\ annotationConnected = FALSE
  /\ updateHotspotResult = NotCalled

InitOutside ==
  /\ QuadrantAt(0) /\ InitPMREM /\ ConvertersAt(<<>>) /\ InitAnnotation
  /\ BucketsAt([theta |-> 0, phi |-> 75])

Init == InitControls /\ InitOutside

-----------------------------------------------------------------------------
(* Actions *)

ConnectedCallback ==
  /\ ~changeListener
  /\ changeListener' = TRUE
  /\ Record("connected", {}, NO_SOURCE)
  /\ dispatched' = <<>>
  /\ fbtOnly' = FALSE
  /\ UNCHANGED <<cameraControls, interactionPrompt,
                 interactionPromptThreshold, promptElementVisible,
                 promptClassVisible, userPromptedOnce, waitingToPromptUser,
                 shouldPromptUserToInteract, lastSpherical, ariaLabel,
                 controlsInteraction, focusListeners, focused,
                 loaded, loadedTime, now>>
  /\ UNCHANGED outside
  /\ UNCHANGED targetVars
  /\ UNCHANGED framingVars
  /\ UNCHANGED jumpVars

DisconnectedCallback ==
  /\ changeListener
  /\ changeListener' = FALSE
  /\ focused' = FALSE
  /\ Record("disconnected", {}, NO_SOURCE)
  /\ dispatched' = <<>>
  /\ fbtOnly' = FALSE
  /\ UNCHANGED <<cameraControls, interactionPrompt,
                 interactionPromptThreshold, promptElementVisible,
                 promptClassVisible, userPromptedOnce, waitingToPromptUser,
                 shouldPromptUserToInteract, lastSpherical, ariaLabel,
                 controlsInteraction, focusListeners,
                 loaded, loadedTime, now>>
  /\ UNCHANGED outside
  /\ UNCHANGED targetVars
  /\ UNCHANGED framingVars
  /\ UNCHANGED jumpVars

\* super.updated() of the base element: a new src unloads the current model
BaseUpdated(changed) ==
  IF "src" \in changed
  THEN loaded' = FALSE /\ loadedTime' = 0
  ELSE UNCHANGED <<loaded, loadedTime>>

\* updated(changedProperties): the properties named in changed were set
\* (to cc, ip, pol) since the last update
Updated(changed, cc, ip) ==
  /\ UpdatedJump(jumpCamera, continuations) <= MaxContinuations
  /\ "cameraControls" \notin changed => cc = cameraControls
  /\ "interactionPrompt" \notin changed => ip = interactionPrompt
  /\ cameraControls' = cc
  /\ interactionPrompt' = ip
  /\ BaseUpdated(changed)
  /\ IF "cameraControls" \in changed
     THEN /\ controlsInteraction' = cameraControls'
          /\ focusListeners' = cameraControls'
     ELSE UNCHANGED <<controlsInteraction, focusListeners>>
  /\ SetPrompt(
       UpdatedSrc(
         UpdatedInteractionPrompt(
           UpdatedCameraControls(PromptState, changed,
                                 cameraControls', interactionPrompt'),
           changed, cameraControls', interactionPrompt'),
         changed))
  /\ Record("updated", changed, NO_SOURCE)
  /\ dispatched' = <<>>
  /\ fbtOnly' = FALSE
  /\ UNCHANGED <<interactionPromptThreshold, lastSpherical, ariaLabel,
                 changeListener, focused, now>>
  /\ UNCHANGED outside
  /\ UNCHANGED targetVars
  /\ UNCHANGED framingVars
  /\ continuations' = UpdatedJump(jumpCamera, continuations)
  /\ updateRequested' = FALSE
  /\ UNCHANGED jumpCamera

\* the page sets interaction-prompt-threshold (no handler in updated())
SetThreshold(thr) ==
  /\ thr # interactionPromptThreshold
  /\ interactionPromptThreshold' = thr
  /\ Record("threshold", {}, NO_SOURCE)
  /\ dispatched' = <<>>
  /\ fbtOnly' = FALSE
  /\ UNCHANGED <<cameraControls, interactionPrompt,
                 promptElementVisible, promptClassVisible, userPromptedOnce,
                 waitingToPromptUser, shouldPromptUserToInteract, lastSpherical,
                 ariaLabel, controlsInteraction, changeListener,
                 focusListeners, focused, loaded, loadedTime, now>>
  /\ UNCHANGED outside
  /\ UNCHANGED targetVars
  /\ UNCHANGED framingVars
  /\ UNCHANGED jumpVars

\* super[$onModelLoad]() of the base element: records the load and its time
BaseOnModelLoad(time) ==
  /\ loaded' = TRUE
  /\ loadedTime' = time

\* controls.jumpToGoal(): the controller is at its goal at once
JumpToGoal ==
  /\ controlsTarget' = goalTarget
  /\ fov' = fovGoal'

\* $updateCamera with scene.model and scene.aspect as given: the radius
\* bound follows the model; with field-of-view auto
\* the framed field of view is recomputed and the zoom re-applied to it; the
\* controller jumps to its goal.  (updateIntrinsics sets the projection of
\* the camera only.)
UpdateCamera(model, aspect) ==
  /\ maximumRadius' = model.idealCameraDistance * 2
  /\ IF fieldOfView = DEFAULT_FIELD_OF_VIEW
     THEN /\ framedFieldOfView' =
               FramedFieldOfView(model.fieldOfViewAspect, aspect)
          /\ maximumFieldOfView' = framedFieldOfView'
          /\ fovGoal' = ClampFieldOfView(
                          Reframed(framedFieldOfView, framedFieldOfView', fov),
                          maximumFieldOfView')
     ELSE UNCHANGED <<framedFieldOfView, maximumFieldOfView, fovGoal>>
  /\ JumpToGoal

\* $onModelLoad at performance.now() = time, model being the one that
\* loaded: the load is recorded, the camera re-framed, and the controller
\* jumps to its goal.  (The three
\* requestUpdate calls make the styling layer re-evaluate the attributes;
\* what it then pushes arrives in SyncCameraTarget.)
OnModelLoad(time, model) ==
  /\ time >= now
  /\ now' = time
  /\ BaseOnModelLoad(time)
  /\ Record("modelLoad", {}, NO_SOURCE)
  /\ dispatched' = <<>>
  /\ fbtOnly' = FALSE
  /\ UNCHANGED <<cameraControls, interactionPrompt,
                 interactionPromptThreshold, promptElementVisible,
                 promptClassVisible, userPromptedOnce, waitingToPromptUser,
                 shouldPromptUserToInteract, lastSpherical, ariaLabel,
                 controlsInteraction, changeListener,
                 focusListeners, focused>>
  /\ UNCHANGED outside
  /\ sceneModel' = model
  /\ UpdateCamera(model, sceneAspect)
  /\ UNCHANGED <<goalTarget, pivotCenter, pivotRotationY, sceneRotation,
                 pivotWritten, fieldOfView, sceneAspect>>
  /\ UNCHANGED jumpVars

\* $tick(time, delta) with the prompt promptOffset pixels off centre: the
\* prompt step, the nudge, the controller's frame and the copy of its target
\* to the scene.  (A change event the controller raises in its frame is the
\* action OnChange.)
Tick(time, promptOffset) ==
  /\ time >= now
  /\ now' = time
  /\ ariaLabel' = IF ShowsPrompt(PromptState, time) THEN INTERACTION_PROMPT
                  ELSE ariaLabel
  /\ SetPrompt(TickPrompt(PromptState, time))
  /\ Record("tick", {}, NO_SOURCE)
  /\ dispatched' = <<>>
  /\ fbtOnly' = (fbtOnly \/ ShowsPrompt(PromptState, time))
  /\ UNCHANGED <<cameraControls, interactionPrompt,
                 interactionPromptThreshold, lastSpherical, controlsInteraction, changeListener, focusListeners, focused,
                 loaded, loadedTime>>
  /\ UNCHANGED outside
  /\ pivotRotationY' = Nudge(promptElementVisible', pivotRotationY, promptOffset)
  /\ \E target \in ControlsUpdate(controlsTarget, goalTarget) :
       LET sync == PivotSync(pivotCenter, sceneRotation, target, pivotRotationY')
       IN /\ controlsTarget' = target
          /\ pivotCenter' = sync.center
          /\ sceneRotation' = sync.rotation
          /\ pivotWritten' = sync.wrote
  /\ fov' \in FovUpdate(fov, fovGoal)
  /\ UNCHANGED <<goalTarget, fieldOfView, framedFieldOfView, sceneAspect,
                 sceneModel, fovGoal, maximumFieldOfView, maximumRadius>>
  /\ UNCHANGED jumpVars

\* $syncCameraTarget(style): the styling layer pushes the evaluated
\* camera-target, the point p
SyncCameraTarget(p) ==
  /\ goalTarget' = p
  /\ pivotCenter' = p
  /\ sceneRotation' = pivotRotationY
  /\ pivotWritten' = TRUE
  /\ Record("syncCameraTarget", {}, NO_SOURCE)
  /\ dispatched' = <<>>
  /\ fbtOnly' = FALSE
  /\ UNCHANGED <<cameraControls, interactionPrompt,
                 interactionPromptThreshold, promptElementVisible,
                 promptClassVisible, userPromptedOnce, waitingToPromptUser,
                 shouldPromptUserToInteract, lastSpherical, ariaLabel,
                 controlsInteraction, changeListener, focusListeners, focused,
                 loaded, loadedTime, now>>
  /\ UNCHANGED <<controlsTarget, pivotRotationY>>
  /\ UNCHANGED outside
  /\ UNCHANGED framingVars
  /\ UNCHANGED jumpVars

UnchangedElement ==
  UNCHANGED <<cameraControls, interactionPrompt,
              interactionPromptThreshold, promptElementVisible,
              promptClassVisible, userPromptedOnce, waitingToPromptUser,
              shouldPromptUserToInteract, lastSpherical, ariaLabel,
              controlsInteraction, changeListener, focusListeners, focused,
              loaded, loadedTime, now>>

\* $onResize: the base element takes the new size, the viewport's aspect
\* becoming a, and the camera is re-framed
OnResize(a) ==
  /\ sceneAspect' = a
  /\ UpdateCamera(sceneModel, a)
  /\ Record("resize", {}, NO_SOURCE)
  /\ dispatched' = <<>>
  /\ fbtOnly' = FALSE
  /\ UnchangedElement
  /\ UNCHANGED <<goalTarget, pivotCenter, pivotRotationY, sceneRotation,
                 pivotWritten, fieldOfView, sceneModel>>
  /\ UNCHANGED outside
  /\ UNCHANGED jumpVars

\* the page sets field-of-view to attr and the styling layer pushes what it
\* evaluates to: $syncFieldOfView
SyncFieldOfView(attr) ==
  /\ fieldOfView' = attr
  /\ fovGoal' = ClampFieldOfView(Frac(EvaluatedFieldOfView(attr), 1),
                                 maximumFieldOfView)
  /\ Record("syncFieldOfView", {}, NO_SOURCE)
  /\ dispatched' = <<>>
  /\ fbtOnly' = FALSE
  /\ UnchangedElement
  /\ UNCHANGED <<targetVars, framedFieldOfView, sceneAspect, sceneModel, fov,
                 maximumFieldOfView, maximumRadius>>
  /\ UNCHANGED outside
  /\ UNCHANGED jumpVars

\* the user zooms while interaction is enabled: the controller takes the
\* field of view z as its goal
UserZoom(z) ==
  /\ controlsInteraction
  /\ fovGoal' = ClampFieldOfView(Frac(z, 1), maximumFieldOfView)
  /\ Record("userZoom", {}, NO_SOURCE)
  /\ dispatched' = <<>>
  /\ fbtOnly' = FALSE
  /\ UnchangedElement
  /\ UNCHANGED <<targetVars, fieldOfView, framedFieldOfView, sceneAspect,
                 sceneModel, fov, maximumFieldOfView, maximumRadius>>
  /\ UNCHANGED outside
  /\ UNCHANGED jumpVars

\* jumpCameraToGoal(): the flag is set and an update requested
JumpCameraToGoal ==
  /\ jumpCamera' = TRUE
  /\ updateRequested' = TRUE
  /\ Record("jumpCameraToGoal", {}, NO_SOURCE)
  /\ dispatched' = <<>>
  /\ fbtOnly' = FALSE
  /\ UnchangedElement
  /\ UNCHANGED <<continuations, targetVars, framingVars>>
  /\ UNCHANGED outside

\* a continuation queued by updated() runs: the controller jumps to its goal
\* and the flag is cleared
RunContinuation ==
  /\ continuations > 0
  /\ continuations' = continuations - 1
  /\ UNCHANGED <<goalTarget, fovGoal>>
  /\ JumpToGoal
  /\ jumpCamera' = FALSE
  /\ Record("jump", {}, NO_SOURCE)
  /\ dispatched' = <<>>
  /\ fbtOnly' = FALSE
  /\ UnchangedElement
  /\ UNCHANGED <<updateRequested, pivotCenter, pivotRotationY, sceneRotation,
                 pivotWritten, fieldOfView, framedFieldOfView, sceneAspect,
                 sceneModel, maximumFieldOfView, maximumRadius>>
  /\ UNCHANGED outside

\* the update pass a requestUpdate asked for, no property having changed
UpdatePass ==
  /\ updateRequested
  /\ Updated({}, cameraControls, interactionPrompt)

\* the canvas gains focus while the focus listener is registered: $onFocus
OnFocus ==
  /\ changeListener /\ focusListeners /\ ~focused
  /\ focused' = TRUE
  /\ ariaLabel' = OnFocusAria(ariaLabel)
  /\ SetPrompt(OnFocusPrompt(PromptState))
  /\ Record("focus", {}, NO_SOURCE)
  /\ dispatched' = <<>>
  /\ UNCHANGED <<cameraControls, interactionPrompt,
                 interactionPromptThreshold, lastSpherical, controlsInteraction, changeListener, focusListeners, loaded,
                 loadedTime, now, fbtOnly>>
  /\ UNCHANGED outside
  /\ UNCHANGED targetVars
  /\ UNCHANGED framingVars
  /\ UNCHANGED jumpVars

\* the canvas loses focus while the blur listener is registered: $onBlur
OnBlur ==
  /\ focusListeners /\ focused
  /\ focused' = FALSE
  /\ SetPrompt(OnBlurPrompt(PromptState))
  /\ Record("blur", {}, NO_SOURCE)
  /\ dispatched' = <<>>
  /\ UNCHANGED <<cameraControls, interactionPrompt,
                 interactionPromptThreshold, lastSpherical, ariaLabel,
                 controlsInteraction, changeListener,
                 focusListeners, loaded, loadedTime, now, fbtOnly>>
  /\ UNCHANGED outside
  /\ UNCHANGED targetVars
  /\ UNCHANGED framingVars
  /\ UNCHANGED jumpVars

\* focus moves in or out while no listener is registered (controls disabled)
FocusUnobserved ==
  /\ ~focusListeners
  /\ IF focused THEN focused' = FALSE ELSE changeListener /\ focused' = TRUE
  /\ Record("focusUnobserved", {}, NO_SOURCE)
  /\ dispatched' = <<>>
  /\ fbtOnly' = FALSE
  /\ UNCHANGED <<cameraControls, interactionPrompt,
                 interactionPromptThreshold, promptElementVisible,
                 promptClassVisible, userPromptedOnce, waitingToPromptUser,
                 shouldPromptUserToInteract, lastSpherical, ariaLabel,
                 controlsInteraction, changeListener,
                 focusListeners, loaded, loadedTime, now>>
  /\ UNCHANGED outside
  /\ UNCHANGED targetVars
  /\ UNCHANGED framingVars
  /\ UNCHANGED jumpVars

\* $onChange({source}): the controller reports the camera at sph
OnChange(source, sph) ==
  /\ changeListener
  /\ ariaLabel' = UpdateAria(sph)
  /\ lastSpherical' = sph
  /\ SetPrompt(OnChangePrompt(PromptState, source))
  /\ dispatched' = DispatchCameraChange(source, sph)
  /\ Record("change", {}, source)
  /\ fbtOnly' = FALSE
  /\ UNCHANGED <<cameraControls, interactionPrompt,
                 interactionPromptThreshold, controlsInteraction,
                 changeListener, focusListeners, focused, loaded, loadedTime,
                 now>>
  /\ UNCHANGED outside
  /\ UNCHANGED targetVars
  /\ UNCHANGED framingVars
  /\ UNCHANGED jumpVars

Next ==
  \/ ConnectedCallback
  \/ DisconnectedCallback
  \/ \E changed \in SUBSET Props, cc \in BOOLEAN,
        ip \in InteractionPromptStrategy :
       Updated(changed, cc, ip)
  \/ \E thr \in Thresholds : SetThreshold(thr)
  \/ \E time \in Times, model \in FixedModels : OnModelLoad(time, model)
  \/ \E time \in Times : Tick(time, 0)
  \/ OnFocus
  \/ OnBlur
  \/ FocusUnobserved
  \/ \E source \in ChangeSource, sph \in Sphericals : OnChange(source, sph)

Spec == Init /\ [][Next]_vars

\* The element once connected: its controls switched on and off, focus
\* moving, loads, frames,
\* and the controller reporting the camera anywhere on the sphere
NextAria ==
  \/ ConnectedCallback
  \/ \E cc \in BOOLEAN : Updated({"cameraControls"}, cc, interactionPrompt)
  \/ \E time \in Times, model \in FixedModels : OnModelLoad(time, model)
  \/ \E time \in Times : Tick(time, 0)
  \/ OnFocus
  \/ OnBlur
  \/ FocusUnobserved
  \/ \E source \in ChangeSource, sph \in AriaSphericals : OnChange(source, sph)

SpecAria == Init /\ [][NextAria]_vars

\* The camera target: the element with its controls on and the prompt on
\* auto, models loading, frames with the prompt on or off centre, and the
\* styling layer pushing camera targets
NextTarget ==
  \/ Updated({"cameraControls"}, TRUE, interactionPrompt)
  \/ \E time \in Times, model \in FixedModels : OnModelLoad(time, model)
  \/ \E time \in Times, promptOffset \in Offsets : Tick(time, promptOffset)
  \/ \E p \in Points : SyncCameraTarget(p)

SpecTarget == Init /\ [][NextTarget]_vars

\* The framing of the camera: models of several shapes loading, the viewport
\* resized, the user zooming, the attribute field-of-view set, frames
NextFraming ==
  \/ Updated({"cameraControls"}, TRUE, interactionPrompt)
  \/ \E model \in Models : OnModelLoad(now, model)
  \/ \E a \in Aspects : OnResize(a)
  \/ \E attr \in FieldOfViews : SyncFieldOfView(attr)
  \/ \E z \in ZoomGoals : UserZoom(z)
  \/ Tick(now, 0)

SpecFraming == Init /\ [][NextFraming]_vars

\* The deferred jump: jumps requested at any time, update passes with and
\* without a request behind them, continuations, and the camera target
\* pushed and animated in between.  An update pass that was requested runs,
\* and so does a continuation that was queued.
NextJump ==
  \/ JumpCameraToGoal
  \/ UpdatePass
  \/ \E changed \in {{}, {"src"}} :
       Updated(changed, cameraControls, interactionPrompt)
  \/ RunContinuation
  \/ \E p \in Points : SyncCameraTarget(p)
  \/ Tick(now, 0)

SpecJump ==
  /\ Init
  /\ [][NextJump]_vars
  /\ WF_vars(UpdatePass)
  /\ WF_vars(RunContinuation)

-----------------------------------------------------------------------------
(* The PMREMGenerator: update(cubeTarget) = setup, generateMipmaps,
   packMipmaps *)

\* setup(cubeTarget), the first step of update(source)
Setup(source) ==
  /\ pmremPc = "idle"
  /\ updates < MaxUpdates
  /\ updates' = updates + 1
  /\ pmremPc' = "setup"
  /\ cubeTarget' = source
  /\ cubeCamera' = IF cubeCamera = NoCubeCamera \/ cubeCamera # source.width
                   THEN source.width ELSE cubeCamera
  /\ LET lods == SetupLods(0, cubeLods, objects, 0, source)
     IN /\ cubeLods' = lods.cubeLods
        /\ objects' = lods.objects
  /\ IF NUM_LODS # numLods
     THEN /\ numLods' = NUM_LODS
          /\ cubeUVRenderTarget' = [width |-> AtlasWidth(NUM_LODS),
                                    height |-> AtlasHeight(NUM_LODS)]
          /\ flatCamera' = [left |-> 0, right |-> cubeUVRenderTarget'.width,
                            top |-> 0, bottom |-> cubeUVRenderTarget'.height,
                            unitDepth |-> TRUE]
     ELSE UNCHANGED <<numLods, cubeUVRenderTarget, flatCamera>>
  /\ UNCHANGED <<mipmapPasses, packed, renderer, renders, packingScene>>
  /\ UNCHANGED <<controlsVars, quadrantVars, converterVars, bucketVars,
                 annotationVars>>

\* the j-th pass of generateMipmaps: level numLods - j is rendered with the
\* shader's envMap of that moment, the source for the first pass and the
\* level rendered before it for every other
MipmapPass(j) ==
  [target |-> cubeLods[numLods - j + 1],
   input |-> IF j = 1 THEN cubeTarget ELSE cubeLods[numLods - j + 2]]

\* generateMipmaps(cubeTarget, renderer), the second step of update.  Render
\* number failAt throws (0: none does); the exception leaves the function,
\* and update with it, before the statements that restore the renderer
GenerateMipmaps(failAt) ==
  /\ pmremPc = "setup"
  /\ failAt \in 0..numLods
  /\ LET count == IF failAt = 0 THEN numLods ELSE failAt
     IN /\ renders' = [j \in 1..count |-> LinearRenderer(MipmapPass(j).target)]
        /\ mipmapPasses' =
             [j \in 1..(IF failAt = 0 THEN numLods ELSE failAt - 1) |->
                MipmapPass(j)]
        /\ renderer' = IF failAt = 0 THEN renderer ELSE renders'[count]
  /\ pmremPc' = IF failAt = 0 THEN "mipmaps" ELSE "idle"
  /\ UNCHANGED <<numLods, cubeLods, objects, cubeCamera, cubeUVRenderTarget,
                 flatCamera, cubeTarget, packed, updates, packingScene>>
  /\ UNCHANGED <<controlsVars, quadrantVars, converterVars, bucketVars,
                 annotationVars>>

\* packMipmaps(renderer), the last step of update: the first 6 * numLods
\* quads are added to the packing scene, rendered into the atlas through the
\* flat camera and removed.  When the render throws, the exception leaves
\* the function before the renderer is restored and the quads are removed
PackMipmaps(fails) ==
  /\ pmremPc = "mipmaps"
  /\ pmremPc' = "idle"
  /\ renders' = <<LinearRenderer(cubeUVRenderTarget)>>
  /\ IF fails
     THEN /\ renderer' = renders'[1]
          /\ packingScene' = 6 * numLods
          /\ UNCHANGED packed
     ELSE /\ renderer' = renderer
          /\ packingScene' = 0
          /\ packed' = SubSeq(objects, 1, 6 * numLods)
  /\ UNCHANGED <<numLods, cubeLods, objects, cubeCamera, cubeUVRenderTarget,
                 flatCamera, cubeTarget, mipmapPasses, updates>>
  /\ UNCHANGED <<controlsVars, quadrantVars, converterVars, bucketVars,
                 annotationVars>>

\* the application changes the renderer's settings between two updates
ConfigureRenderer(settings) ==
  /\ pmremPc = "idle"
  /\ renderer # settings
  /\ renderer' = settings
  /\ UNCHANGED <<numLods, cubeLods, objects, cubeCamera, cubeUVRenderTarget,
                 flatCamera, cubeTarget, pmremPc, mipmapPasses, packed,
                 updates, renders, packingScene>>
  /\ UNCHANGED <<controlsVars, quadrantVars, converterVars, bucketVars,
                 annotationVars>>

\* every render call completes
NextPMREM ==
  \/ \E source \in Sources : Setup(source)
  \/ GenerateMipmaps(0)
  \/ PackMipmaps(FALSE)

SpecPMREM == Init /\ [][NextPMREM]_vars

\* the sources the passes are rendered for when render calls may throw
RenderSources == {source \in Sources : source.id = 1 /\ source.width >= 256}

\* render calls may throw, and the application configures its renderer
NextRender ==
  \/ \E source \in RenderSources : Setup(source)
  \/ \E failAt \in 0..NUM_LODS : GenerateMipmaps(failAt)
  \/ \E fails \in BOOLEAN : PackMipmaps(fails)
  \/ \E settings \in RendererStates : ConfigureRenderer(settings)

SpecRender == Init /\ [][NextRender]_vars

-----------------------------------------------------------------------------
(* The annotation mixin: hotspots made from the element's children *)

\* the slot attribute of the elements that become children of the viewer,
\* each a string cut into pieces
ElementSlots ==
  <<<<"hotspot", "-a">>, <<"my-", "hotspot", "-b">>, <<"caption">>>>

Elements == DOMAIN ElementSlots

\* node.slot.includes('hotspot')
IncludesHotspot(slot) == \E i \in DOMAIN slot : slot[i] = "hotspot"

\* the names updateHotspot is called with: the slots and one no child has
ConfigNames == {ElementSlots[e] : e \in Elements} \cup {<<"hotspot", "-z">>}

\* config.position and config.normal: absent, or a string of three lengths
ConfigValues == {"undefined", "1m 1m 1m"}

\* new Hotspot(config) for node, whose dataset has no position or normal
NewHotspot(node) ==
  [node |-> node, name |-> ElementSlots[node],
   position |-> "0m 0m 0m", normal |-> "0m 1m 0m"]

\* the state $addHotspot and $removeHotspot work on
HotspotState ==
  [map |-> hotspotMap, pivot |-> pivotHotspots, made |-> hotspots]

\* $addHotspot(node)
AddHotspot(h, node) ==
  IF ~IncludesHotspot(ElementSlots[node]) THEN h
  ELSE LET id == Len(h.made) + 1
       IN [map |-> [n \in DOMAIN h.map \cup {node} |->
                      IF n = node THEN id ELSE h.map[n]],
           pivot |-> h.pivot \cup {id},
           made |-> Append(h.made, NewHotspot(node))]

\* $removeHotspot(node)
RemoveHotspot(h, node) ==
  IF node \notin DOMAIN h.map THEN h
  ELSE [map |-> [n \in DOMAIN h.map \ {node} |-> h.map[n]],
        pivot |-> h.pivot \ {h.map[node]},
        made |-> h.made]

\* $addHotspot for every node of a list, in order
RECURSIVE AddHotspots(_, _)
AddHotspots(h, nodes) ==
  IF nodes = <<>> THEN h
  ELSE AddHotspots(AddHotspot(h, Head(nodes)), Tail(nodes))

\* the observer's callback: every record's added node, then its removed node
RECURSIVE Deliver(_, _)
Deliver(h, mutations) ==
  IF mutations = <<>> THEN h
  ELSE LET mutation == Head(mutations)
           after == IF mutation.added THEN AddHotspot(h, mutation.node)
                    ELSE RemoveHotspot(h, mutation.node)
       IN Deliver(after, Tail(mutations))

SetHotspots(h) ==
  /\ hotspotMap' = h.map
  /\ pivotHotspots' = h.pivot
  /\ hotspots' = h.made

\* the hotspot children of a list of nodes
HotspotNodes(nodes) ==
  {i \in DOMAIN nodes : IncludesHotspot(ElementSlots[nodes[i]])}

\* connectedCallback: a Hotspot for every child, then the observer starts
AnnotationConnectedCallback ==
  /\ ~annotationConnected
  /\ Len(hotspots) + Cardinality(HotspotNodes(hostChildren)) <= MaxHotspots
  /\ annotationConnected' = TRUE
  /\ SetHotspots(AddHotspots(HotspotState, hostChildren))
  /\ observing' = TRUE
  /\ UNCHANGED <<hostChildren, records, updateHotspotResult>>
  /\ UNCHANGED <<controlsVars, quadrantVars, pmremVars, converterVars,
                 bucketVars>>

\* disconnectedCallback: observer.disconnect() also drops the records that
\* were not delivered
AnnotationDisconnectedCallback ==
  /\ annotationConnected
  /\ annotationConnected' = FALSE
  /\ observing' = FALSE
  /\ records' = <<>>
  /\ UNCHANGED <<hostChildren, hotspotMap, pivotHotspots, hotspots,
                 updateHotspotResult>>
  /\ UNCHANGED <<controlsVars, quadrantVars, pmremVars, converterVars,
                 bucketVars>>

\* the page appends node to the viewer
ChildAdded(node) ==
  /\ \A i \in DOMAIN hostChildren : hostChildren[i] # node
  /\ hostChildren' = Append(hostChildren, node)
  /\ IF observing
     THEN /\ Len(records) < MaxRecords
          /\ records' = Append(records, [added |-> TRUE, node |-> node])
     ELSE UNCHANGED records
  /\ UNCHANGED <<hotspotMap, pivotHotspots, hotspots, observing,
                 annotationConnected, updateHotspotResult>>
  /\ UNCHANGED <<controlsVars, quadrantVars, pmremVars, converterVars,
                 bucketVars>>

\* the page removes node from the viewer
ChildRemoved(node) ==
  /\ \E i \in DOMAIN hostChildren : hostChildren[i] = node
  /\ hostChildren' = SelectSeq(hostChildren, LAMBDA n : n # node)
  /\ IF observing
     THEN /\ Len(records) < MaxRecords
          /\ records' = Append(records, [added |-> FALSE, node |-> node])
     ELSE UNCHANGED records
  /\ UNCHANGED <<hotspotMap, pivotHotspots, hotspots, observing,
                 annotationConnected, updateHotspotResult>>
  /\ UNCHANGED <<controlsVars, quadrantVars, pmremVars, converterVars,
                 bucketVars>>

\* the observer's callback runs with the records queued so far
DeliverMutations ==
  /\ records # <<>>
  /\ Len(hotspots)
       + Cardinality({i \in DOMAIN records :
                        records[i].added
                        /\ IncludesHotspot(ElementSlots[records[i].node])})
       <= MaxHotspots
  /\ SetHotspots(Deliver(HotspotState, records))
  /\ records' = <<>>
  /\ UNCHANGED <<hostChildren, observing, annotationConnected,
                 updateHotspotResult>>
  /\ UNCHANGED <<controlsVars, quadrantVars, pmremVars, converterVars,
                 bucketVars>>

\* this.querySelector('[slot="name"]'): the first child with that slot, 0
\* for null
QuerySlot(name) ==
  LET found == {i \in DOMAIN hostChildren : ElementSlots[hostChildren[i]] = name}
  IN IF found = {} THEN 0
     ELSE hostChildren[CHOOSE i \in found : \A j \in found : i <= j]

\* Hotspot.updatePosition / updateNormal: an absent value changes nothing
Updated3(old, value) == IF value = "undefined" THEN old ELSE value

\* updateHotspot(config), called once: hotspotMap.get(element) is undefined
\* when no Hotspot is registered for the element, and the call on it throws
UpdateHotspot(name, position, normal) ==
  LET element == QuerySlot(name)
  IN /\ updateHotspotResult = NotCalled
     /\ IF element = 0
        THEN /\ updateHotspotResult' = [outcome |-> "returned", name |-> name]
             /\ UNCHANGED hotspots
        ELSE IF element \notin DOMAIN hotspotMap
        THEN /\ updateHotspotResult' = [outcome |-> "TypeError", name |-> name]
             /\ UNCHANGED hotspots
        ELSE /\ updateHotspotResult' = [outcome |-> "updated", name |-> name]
             /\ hotspots' =
                  [hotspots EXCEPT
                     ![hotspotMap[element]] =
                        [@ EXCEPT !.position = Updated3(@, position),
                                  !.normal = Updated3(@, normal)]]
     /\ UNCHANGED <<hostChildren, hotspotMap, pivotHotspots, observing,
                    records, annotationConnected>>
     /\ UNCHANGED <<controlsVars, quadrantVars, pmremVars, converterVars,
                    bucketVars>>

NextAnnotation ==
  \/ AnnotationConnectedCallback
  \/ AnnotationDisconnectedCallback
  \/ \E node \in Elements : ChildAdded(node)
  \/ \E node \in Elements : ChildRemoved(node)
  \/ DeliverMutations
  \/ \E name \in ConfigNames, position \in ConfigValues,
        normal \in ConfigValues :
       UpdateHotspot(name, position, normal)

SpecAnnotation == Init /\ [][NextAnnotation]_vars

-----------------------------------------------------------------------------
(* The aria bucketing as a function of theta and phi *)

\* theta on and next to every quadrant boundary, up to MaxTheta either way
BucketThetas == {theta \in -MaxTheta .. MaxTheta : theta % QUARTER_PI \in {0, 1, 44}}

\* phi from the up axis to the down axis, both included
BucketPhis == 0 .. (PHI \div 2)

\* the open interval (0, pi) the controller keeps phi in
ControllerPhis == 1 .. (PHI \div 2 - 1)

\* the bucket indices and the label of $updateAria for viewSpherical
ComputeBuckets ==
  /\ ~viewBuckets.computed
  /\ viewBuckets' =
       [computed |-> TRUE,
        quadrant |-> AzimuthalQuadrant(viewSpherical.theta),
        trient |-> PolarTrient(viewSpherical.phi),
        label |-> ViewLabel(viewSpherical)]
  /\ UNCHANGED <<viewSpherical, controlsVars, quadrantVars, pmremVars,
                 converterVars, annotationVars>>

InitBuckets ==
  /\ InitControls /\ QuadrantAt(0) /\ InitPMREM /\ ConvertersAt(<<>>)
  /\ InitAnnotation
  /\ \E theta \in BucketThetas, phi \in BucketPhis :
        BucketsAt([theta |-> theta, phi |-> phi])

NextBuckets == ComputeBuckets

SpecBuckets == InitBuckets /\ [][NextBuckets]_vars

-----------------------------------------------------------------------------
(* The attribute-string converters as functions of the parsed nodes *)

ConvertSpherical(defaultValues) ==
  /\ ~deserialized.spherical.done
  /\ deserialized' =
       [deserialized EXCEPT
          !.spherical = deserializeSpherical(valueNodes, defaultValues)]
  /\ UNCHANGED <<valueNodes, controlsVars, quadrantVars, pmremVars, bucketVars,
                 annotationVars>>

ConvertVector3 ==
  /\ ~deserialized.vector3.done
  /\ deserialized' =
       [deserialized EXCEPT
          !.vector3 = deserializeVector3(valueNodes, Vector3Defaults)]
  /\ UNCHANGED <<valueNodes, controlsVars, quadrantVars, pmremVars, bucketVars,
                 annotationVars>>

ConvertAngleToDeg ==
  /\ ~deserialized.angleToDeg.done
  /\ deserialized' =
       [deserialized EXCEPT
          !.angleToDeg =
             deserializeAngleToDeg(valueNodes, Angle(DEFAULT_FOV_DEG))]
  /\ UNCHANGED <<valueNodes, controlsVars, quadrantVars, pmremVars, bucketVars,
                 annotationVars>>

InitConverters ==
  /\ InitControls /\ QuadrantAt(0) /\ InitPMREM /\ InitAnnotation
  /\ BucketsAt([theta |-> 0, phi |-> 75])
  /\ \E nodes \in ValueNodeLists : ConvertersAt(nodes)

NextConverters ==
  \/ \E defaultValues \in SphericalDefaults : ConvertSpherical(defaultValues)
  \/ ConvertVector3
  \/ ConvertAngleToDeg

SpecConverters == InitConverters /\ [][NextConverters]_vars

-----------------------------------------------------------------------------
(* The azimuthal-quadrant bucketing as a function of theta alone *)

Thetas == -MaxTheta .. MaxTheta

\* the expression of $updateAria is evaluated for theta plus the turns added
ComputeQuadrant ==
  /\ ~azComputed
  /\ azComputed' = TRUE
  /\ azQuadrant' = AzimuthalQuadrant(azTheta + azTurn * PHI)
  /\ azBase' = IF azTurn = 0 THEN azQuadrant' ELSE azBase
  /\ UNCHANGED <<azTheta, azTurn, controlsVars, pmremVars, converterVars,
                 bucketVars, annotationVars>>

\* the camera goes once more around: theta + 2 pi
AddFullTurn ==
  /\ azComputed
  /\ azTurn < MaxTurns
  /\ azTurn' = azTurn + 1
  /\ azComputed' = FALSE
  /\ UNCHANGED <<azTheta, azQuadrant, azBase, controlsVars, pmremVars,
                 converterVars, bucketVars, annotationVars>>

InitQuadrant ==
  /\ InitControls /\ InitPMREM /\ ConvertersAt(<<>>) /\ InitAnnotation
  /\ BucketsAt([theta |-> 0, phi |-> 75])
  /\ \E theta \in Thetas : QuadrantAt(theta)

NextQuadrant == ComputeQuadrant \/ AddFullTurn

SpecQuadrant == InitQuadrant /\ [][NextQuadrant]_vars

-----------------------------------------------------------------------------
(* Properties *)

IsSrcUpdate(l) == l.op = "updated" /\ "src" \in l.changed

PromptFlags == <<waitingToPromptUser, promptElementVisible, promptClassVisible,
                 userPromptedOnce, shouldPromptUserToInteract>>

\* C1 as stated: once the prompt has been shown, focus events, blur events and
\* ticks alone never make it visible again.
C1_NoReshowAfterPrompted ==
  [][(fbtOnly /\ fbtOnly' /\ ~promptElementVisible) => ~promptElementVisible']_vars

\* C1 amended: once the latch is down (the prompt was shown and then
\* deferred) and the timer is stopped, focus events, blur events and ticks
\* leave the latch down, the timer stopped and the prompt hidden.
C1_NoReshowAfterDeferred ==
  [][(/\ ~shouldPromptUserToInteract
      /\ ~waitingToPromptUser
      /\ ~promptElementVisible
      /\ last'.op \in {"focus", "blur", "tick"})
     => (/\ ~shouldPromptUserToInteract'
         /\ ~waitingToPromptUser'
         /\ ~promptElementVisible')]_vars

C1_Witness ==
  /\ last.op = "focus"
  /\ userPromptedOnce /\ ~last.pre.should /\ ~last.pre.waiting
  /\ ~waitingToPromptUser /\ ~promptElementVisible
  /\ loaded /\ now > loadedTime + interactionPromptThreshold

C3_SrcChangeStartsTimer ==
  IsSrcUpdate(last) =>
    (waitingToPromptUser /\ ~promptElementVisible /\ ~promptClassVisible)

C3_Witness ==
  IsSrcUpdate(last) /\ last.pre.visible /\ ~last.pre.waiting
  /\ waitingToPromptUser /\ ~promptElementVisible

\* C4: shouldPromptUserToInteract is a one-way latch: no enable or disable of
\* the camera controls, change of interaction-prompt or interaction-policy,
\* focus, blur, controller change event or tick makes it true once it is false.
C4_LatchOneWay ==
  [][(~shouldPromptUserToInteract /\ ~IsSrcUpdate(last'))
     => ~shouldPromptUserToInteract']_vars

C4_Witness ==
  /\ last.op = "updated" /\ last.changed = {"cameraControls", "interactionPrompt"}
  /\ cameraControls /\ interactionPrompt = AUTO
  /\ ~last.pre.should /\ ~shouldPromptUserToInteract /\ waitingToPromptUser

IsDisable(l) == l.op = "updated" /\ "cameraControls" \in l.changed /\ ~cameraControls

\* C5 as stated: when camera controls are disabled while the prompt is
\* visible, after that update the prompt is hidden, the timer is stopped and
\* the latch is down.
C5_DisableWhileVisible ==
  (IsDisable(last) /\ last.pre.visible) =>
    (/\ ~promptElementVisible
     /\ ~waitingToPromptUser
     /\ ~shouldPromptUserToInteract)

\* C5 amended: when camera controls are disabled while the prompt is visible,
\* after that update the prompt is hidden and the latch is down; the timer is
\* stopped unless the same update also carries a src change, which restarts
\* it.  A visible prompt always implies the prompt has fired once.
C5_DisableWhileVisibleAmended ==
  /\ (IsDisable(last) /\ last.pre.visible) =>
       (/\ ~promptElementVisible
        /\ ~promptClassVisible
        /\ ~shouldPromptUserToInteract
        /\ (waitingToPromptUser <=> "src" \in last.changed))
  /\ promptElementVisible => userPromptedOnce

C5_Witness ==
  /\ IsDisable(last) /\ last.pre.visible /\ last.pre.should
  /\ "src" \notin last.changed
  /\ ~promptElementVisible /\ ~waitingToPromptUser /\ ~shouldPromptUserToInteract

\* the tick's prompt step shows the prompt
PromptShown ==
  /\ promptElementVisible /\ promptClassVisible
  /\ userPromptedOnce
  /\ ~waitingToPromptUser
  /\ ariaLabel = INTERACTION_PROMPT

\* C6 as stated: while the timer runs and the strategy is not 'none', a tick
\* at which the time since the load has reached the threshold (equality
\* included) shows the prompt.
C6_ShownAtThreshold ==
  (/\ last.op = "tick" /\ last.pre.waiting
   /\ interactionPrompt # NONE
   /\ loaded /\ now >= loadedTime + interactionPromptThreshold)
  => PromptShown

\* C6 amended: while the timer runs and the strategy is not 'none', a tick
\* shows the prompt (visible, prompted once, timer stopped, aria-label = the
\* prompt text) when the model is loaded and the time is strictly past
\* loadedTime + threshold; any other tick, the one at exactly the threshold
\* included, leaves all four unchanged.
C6_ShownPastThreshold ==
  [][(last'.op = "tick" /\ waitingToPromptUser /\ interactionPrompt # NONE)
     => IF loaded /\ now' > loadedTime + interactionPromptThreshold
        THEN PromptShown'
        ELSE UNCHANGED <<promptElementVisible, userPromptedOnce,
                         waitingToPromptUser, ariaLabel>>]_vars

C6_Witness ==
  /\ last.op = "tick" /\ last.pre.waiting /\ ~last.pre.visible /\ ~last.pre.once
  /\ interactionPromptThreshold = DEFAULT_INTERACTION_PROMPT_THRESHOLD
  /\ PromptShown

\* C7: while interactionPrompt is 'none' no tick makes the prompt visible,
\* sets userPromptedOnce or writes the aria-label.
C7_NoneNeverPrompts ==
  [][(last'.op = "tick" /\ interactionPrompt = NONE)
     => UNCHANGED <<promptElementVisible, promptClassVisible,
                    userPromptedOnce, ariaLabel>>]_vars

C7_Witness ==
  /\ last.op = "tick" /\ interactionPrompt = NONE
  /\ last.pre.waiting /\ ~last.pre.once
  /\ loaded /\ now > loadedTime + interactionPromptThreshold
  /\ ~promptElementVisible /\ ~userPromptedOnce /\ ariaLabel # INTERACTION_PROMPT

\* C8: the timer running and the prompt shown exclude each other in every
\* reachable state.
C8_WaitingExcludesVisible ==
  ~(waitingToPromptUser /\ promptElementVisible)

\* C9: a controller change event caused by the user defers the prompt (timer
\* stopped, prompt hidden, latch down exactly when the prompt has fired once,
\* else unchanged); a change event with another source leaves the prompt
\* state unchanged.
C9_UserChangeDefers ==
  [][(last'.op = "change")
     => IF last'.source = USER_INTERACTION
        THEN /\ ~waitingToPromptUser'
             /\ ~promptElementVisible'
             /\ ~promptClassVisible'
             /\ userPromptedOnce' = userPromptedOnce
             /\ shouldPromptUserToInteract' =
                  (IF userPromptedOnce THEN FALSE ELSE shouldPromptUserToInteract)
        ELSE UNCHANGED PromptFlags]_vars

C9_Witness ==
  /\ last.op = "change" /\ last.source = USER_INTERACTION
  /\ last.pre.visible /\ last.pre.should
  /\ ~promptElementVisible /\ ~waitingToPromptUser /\ ~shouldPromptUserToInteract

\* C10: a focus event starts the timer if and only if the latch is still up;
\* with the latch down it leaves the timer, the prompt and both latches
\* unchanged.
C10_FocusStartsTimerIffLatch ==
  [][(last'.op = "focus")
     => IF shouldPromptUserToInteract
        THEN /\ waitingToPromptUser'
             /\ UNCHANGED <<promptElementVisible, userPromptedOnce,
                            shouldPromptUserToInteract>>
        ELSE UNCHANGED PromptFlags]_vars

C10_Witness ==
  /\ last.op = "focus"
  /\ last.pre.should /\ ~last.pre.waiting /\ ~last.pre.visible
  /\ waitingToPromptUser

\* C11: a blur event stops the timer and hides the prompt and leaves
\* shouldPromptUserToInteract and userPromptedOnce unchanged, from any state.
C11_BlurHidesKeepsLatches ==
  [][(last'.op = "blur")
     => /\ ~waitingToPromptUser'
        /\ ~promptElementVisible'
        /\ ~promptClassVisible'
        /\ UNCHANGED <<shouldPromptUserToInteract, userPromptedOnce>>]_vars

C11_Witness ==
  /\ last.op = "blur"
  /\ last.pre.visible /\ last.pre.waiting /\ last.pre.once /\ last.pre.should
  /\ ~promptElementVisible /\ ~waitingToPromptUser
  /\ shouldPromptUserToInteract /\ userPromptedOnce

IsEnable(l) == l.op = "updated" /\ "cameraControls" \in l.changed /\ cameraControls

\* C12 as stated: enabling camera controls sets waitingToPromptUser to true
\* exactly when the strategy is 'auto'; with 'when-focused' or 'none' it
\* leaves waitingToPromptUser unchanged.
C12_EnableStartsTimerIffAuto ==
  IsEnable(last) =>
    IF interactionPrompt = AUTO
    THEN waitingToPromptUser
    ELSE waitingToPromptUser = last.pre.waiting

\* C12 amended: an update that enables camera controls sets
\* waitingToPromptUser to true when the strategy is 'auto'; with
\* 'when-focused' or 'none' it leaves waitingToPromptUser unchanged unless the
\* same update also carries a src change, which sets it to true.
C12_EnableStartsTimerAmended ==
  IsEnable(last) =>
    (waitingToPromptUser <=>
       (\/ interactionPrompt = AUTO
        \/ "src" \in last.changed
        \/ last.pre.waiting))

C12_Witness ==
  /\ IsEnable(last) /\ "src" \notin last.changed
  /\ interactionPrompt = WHEN_FOCUSED
  /\ ~last.pre.waiting /\ ~waitingToPromptUser

\* C16: immediately after a focus event the aria-label is the element's own
\* label and not the prompt text, whatever it was before.
C16_FocusRestoresLabel ==
  last.op = "focus" => (ariaLabel = ARIA_LABEL /\ ariaLabel # INTERACTION_PROMPT)

C16_Witness ==
  /\ last.op = "focus"
  /\ last.pre.aria = INTERACTION_PROMPT /\ last.pre.visible
  /\ ariaLabel = ARIA_LABEL

\* C13: while the element is connected, every controller change event
\* produces exactly one 'camera-change' event carrying the source of the
\* change event, dispatched after the aria update and after any deferral of
\* the prompt the same event causes.
C13_OneCameraChangePerChange ==
  last.op = "change" =>
    /\ Len(dispatched) = 1
    /\ dispatched[1].source = last.source
    /\ dispatched[1].aria = ariaLabel
    /\ dispatched[1].prompt = PromptState

C13_Witness ==
  /\ last.op = "change" /\ last.source = USER_INTERACTION
  /\ changeListener /\ focused
  /\ last.pre.visible /\ last.pre.aria = INTERACTION_PROMPT
  /\ Len(dispatched) = 1
  /\ dispatched[1].source = USER_INTERACTION
  /\ ~dispatched[1].prompt.visible
  /\ dispatched[1].aria # INTERACTION_PROMPT

Bucket(sph) == <<AzimuthalQuadrant(sph.theta), PolarTrient(sph.phi)>>

\* C14: on a controller change event the aria-label becomes "View from stage
\* {trient}{quadrant}" only if the element holds focus and the (quadrant,
\* trient) bucket differs from the bucket of the previously recorded
\* spherical; in every other case, and always when the element is not
\* focused, the change event leaves the aria-label as it was.
C14_AriaRewrittenOnlyFocusedNewBucket ==
  [][(last'.op = "change")
     => ariaLabel' = IF focused /\ Bucket(lastSpherical') # Bucket(lastSpherical)
                     THEN ViewLabel(lastSpherical')
                     ELSE ariaLabel]_vars

C14_Witness ==
  /\ last.op = "change" /\ focused
  /\ last.pre.aria = INTERACTION_PROMPT
  /\ lastSpherical = [theta |-> -400, phi |-> 130]
  /\ ariaLabel = "View from stage lower-front"

\* C15: the azimuthal-quadrant bucketing of $updateAria is invariant under
\* adding a full turn: for every theta, positive, zero or negative, the
\* quadrant of theta plus any number of full turns is the quadrant of theta.
C15_QuadrantInvariantUnderFullTurn ==
  azComputed => /\ azQuadrant = azBase
                /\ azQuadrant \in 0..3

C15_Witness ==
  /\ azComputed /\ azTurn = 1
  /\ azTheta = -500
  /\ azQuadrant = 2 /\ azBase = 2

\* C17: after every tick scene.pivotCenter equals the target the controller
\* returns after its frame; the tick writes pivotCenter, and re-applies the
\* scene yaw, exactly when pivotCenter differed from that target, and
\* otherwise leaves both alone.
C17_PivotFollowsTarget ==
  [][(last'.op = "tick")
     => /\ pivotCenter' = controlsTarget'
        /\ pivotWritten' <=> (pivotCenter # controlsTarget')
        /\ pivotWritten' => sceneRotation' = pivotRotationY'
        /\ ~pivotWritten' => UNCHANGED <<pivotCenter, sceneRotation>>]_vars

C17_Witness ==
  /\ last.op = "tick"
  /\ pivotWritten
  /\ controlsTarget = 1 /\ goalTarget = 2
  /\ pivotCenter = 1
  /\ promptElementVisible
  /\ pivotRotationY = -1 /\ sceneRotation = -1

IsReframing(l) == l.op \in {"resize", "modelLoad"}

\* C18: with field-of-view auto, a re-framing ($updateCamera on a resize or a
\* model load) keeps the relative zoom: the current field of view over the
\* framed one is the same before and after it, the controller having jumped
\* to its goal, whatever the change of aspect or fieldOfViewAspect; on the
\* first re-framing, with no previous framed value, the ratio is 1.
C18_ReframingKeepsZoom ==
  [][(IsReframing(last') /\ fieldOfView = DEFAULT_FIELD_OF_VIEW)
     => /\ fov' = fovGoal'
        /\ IF framedFieldOfView = NoFraming
           THEN fov' = Frac(framedFieldOfView', 1)
           ELSE Frac(fov'.n, fov'.d * framedFieldOfView')
                  = Frac(fov.n, fov.d * framedFieldOfView)]_vars

C18_Witness ==
  /\ last.op = "resize"
  /\ fieldOfView = DEFAULT_FIELD_OF_VIEW
  /\ sceneAspect = 1 /\ sceneModel.fieldOfViewAspect = 2
  /\ framedFieldOfView = 79
  /\ fov = Frac(15 * 79, 45)

\* C19: a jumpCameraToGoal() request is deferred: the updated() pass that
\* observes the flag does not move the controller to its goal but queues a
\* continuation; after every request the jump is eventually performed and
\* the flag is eventually false again, whatever update passes run before the
\* continuation does.
C19_JumpDeferredAndPerformed ==
  /\ [][(last'.op = "updated")
        => /\ UNCHANGED <<controlsTarget, fov, jumpCamera>>
           /\ jumpCamera => continuations' = continuations + 1]_vars
  /\ jumpCamera ~> (last.op = "jump" /\ ~jumpCamera)

C19_Witness ==
  /\ last.op = "jump"
  /\ ~jumpCamera
  /\ continuations = 1
  /\ pivotCenter = 0 /\ goalTarget = 2 /\ controlsTarget = 2

\* C20: after setup, whatever the size of the source cubemap, the atlas
\* render target is 774 wide and 1054 high, that is 3 * (2^numLods + 2) by
\* 4 * numLods + 2 * (2^(numLods + 1) - 1), and the flat camera spans
\* exactly [0, width] x [0, height].
C20_AtlasDimensions ==
  numLods # -1 =>
    /\ numLods = NUM_LODS
    /\ cubeUVRenderTarget = [width |-> 774, height |-> 1054]
    /\ cubeUVRenderTarget.width = 3 * (2^numLods + 2)
    /\ cubeUVRenderTarget.height = 4 * numLods + 2 * (2^(numLods + 1) - 1)
    /\ flatCamera.left = 0 /\ flatCamera.right = cubeUVRenderTarget.width
    /\ flatCamera.top = 0 /\ flatCamera.bottom = cubeUVRenderTarget.height

C20_Witness ==
  /\ pmremPc = "setup"
  /\ updates = 2
  /\ cubeTarget.width = 512
  /\ Len(cubeLods) = 9
  /\ packed # <<>>
  /\ cubeUVRenderTarget = [width |-> 774, height |-> 1054]
  /\ flatCamera.right = 774 /\ flatCamera.bottom = 1054

\* the step is the setup of an update call
IsSetup == updates' = updates + 1

\* C21: an update call whose source cubemap has the face size of the
\* previous call's allocates nothing: the number of LOD render targets, the
\* atlas render target, the cube camera and the list of packing quads are
\* what they were before the call.
C21_SameSizeAllocatesNothing ==
  [][(IsSetup /\ updates > 0 /\ cubeTarget'.width = cubeTarget.width)
     => /\ Len(cubeLods') = Len(cubeLods)
        /\ UNCHANGED <<cubeUVRenderTarget, cubeCamera, objects>>]_vars

\* the step is a call of generateMipmaps or of packMipmaps, complete or failed
IsPass == pmremPc \in {"setup", "mipmaps"} /\ pmremPc' # pmremPc

\* the settings a render call ran with are the linear ones
RanLinear(r) ==
  /\ r.toneMapping = "LinearToneMapping"
  /\ r.toneMappingExposure = 1
  /\ ~r.gammaInput
  /\ ~r.gammaOutput

\* C22: generateMipmaps and packMipmaps each leave the renderer's tone
\* mapping, exposure, gamma flags and current render target as they were
\* before the call, when the pass completes and when a render call inside it
\* fails, and every render of the pass ran with linear tone mapping,
\* exposure 1 and gamma off
C22_RendererRestored ==
  [][IsPass => /\ renderer' = renderer
               /\ \A j \in DOMAIN renders' : RanLinear(renders'[j])]_vars

\* component i of the parsed list is missing or is not a number
MissingOrUnparseable(i) == i \notin DOMAIN valueNodes \/ ~valueNodes[i].numeric

\* C23: deserializeSpherical, deserializeVector3 and deserializeAngleToDeg
\* never throw, whatever the parsed list (0, 1 or 2 nodes, values that are
\* not numbers), and every component that is missing or unparseable takes its
\* default value
C23_ConvertersFailSoft ==
  /\ \A name \in DOMAIN deserialized : ~deserialized[name].threw
  /\ LET r == deserialized.spherical
     IN r.done =>
          /\ \A i \in 1..2 : MissingOrUnparseable(i) => r.value[i] = r.defaults[i]
          /\ MissingOrUnparseable(3) =>
               r.value[3] = r.defaults[3] /\ r.value[4] = r.defaults[4]
  /\ LET r == deserialized.vector3
     IN (r.done /\ ~r.threw) =>
          \A i \in 1..3 : MissingOrUnparseable(i) => r.value[i] = r.defaults[i]
  /\ LET r == deserialized.angleToDeg
     IN (r.done /\ ~r.threw) =>
          (MissingOrUnparseable(1) => r.value[1] = r.defaults[1])

\* the 12 labels built from {upper-, '', lower-} and {front, right, back, left}
WellFormedLabels ==
  {"View from stage " \o trient \o quadrant :
     trient \in {"upper-", "", "lower-"},
     quadrant \in {"front", "right", "back", "left"}}

\* C24: the aria bucketing yields a well-formed label: for every theta,
\* negative or beyond a full turn, the azimuthal quadrant index is in 0..3;
\* for every phi in the controller's range the polar trient index is in 0..2
\* and the label is one of the 12 well-formed strings
C24_LabelWellFormed ==
  viewBuckets.computed =>
    /\ viewBuckets.quadrant \in 0..3
    /\ viewSpherical.phi \in ControllerPhis =>
         /\ viewBuckets.trient \in 0..2
         /\ viewBuckets.label \in WellFormedLabels

C24_Witness ==
  /\ viewBuckets.computed
  /\ viewSpherical = [theta |-> -765, phi |-> 179]
  /\ viewBuckets.quadrant = 0 /\ viewBuckets.trient = 2
  /\ viewBuckets.label = "View from stage lower-front"

\* C25: in generateMipmaps every level is rendered from the level one size
\* larger: the input of a pass has exactly twice the face size of the level
\* the pass writes, and no pass reads the target it writes, whatever the
\* power-of-two size of the source and whatever update calls came before
C25_EachLevelFromTwiceItsSize ==
  \A j \in DOMAIN mipmapPasses :
     /\ mipmapPasses[j].input.width = 2 * mipmapPasses[j].target.width
     /\ mipmapPasses[j].input # mipmapPasses[j].target

\* offset_i of setup: the rows of the levels below level i
LevelOffset(i) == 2 * (2^i - 1 + 2 * i)

\* the square a quad covers in the packing scene, in half texels: the plane
\* is PlaneBufferGeometry(1, 1), which spans -1/2 .. 1/2 about the mesh's
\* position, scaled by the mesh's scale
Tile(quad) ==
  [left |-> 2 * quad.x - quad.scale, right |-> 2 * quad.x + quad.scale,
   top |-> 2 * quad.y - quad.scale, bottom |-> 2 * quad.y + quad.scale]

Overlap(a, b) ==
  /\ a.left < b.right /\ b.left < a.right
  /\ a.top < b.bottom /\ b.top < a.bottom

\* the tile lies in what the flat camera shows of the atlas
InsideAtlas(tile) ==
  /\ 2 * flatCamera.left <= tile.left /\ tile.right <= 2 * flatCamera.right
  /\ 2 * flatCamera.top <= tile.top /\ tile.bottom <= 2 * flatCamera.bottom

\* C26: for every level i < numLods and face k the quad packMipmaps renders
\* is the one created for level i, face k, at x = (k mod 3) * (2^i + 2) and
\* y = offset_i + (1 if k > 2, else 0) * (2^i + 2), where offset_i is the sum
\* of 2 * (2^j + 2) over j < i, with scale 2^i + 2; the tiles of the quads
\* never overlap and lie inside the atlas
C26_QuadsTileTheAtlas ==
  packed # <<>> =>
    /\ Len(packed) = 6 * numLods
    /\ \A i \in 0..(numLods - 1) : \A k \in 0..5 :
          LET quad == packed[6 * i + k + 1]
          IN /\ quad.faceIndex = k
             /\ quad.envMap.width = 2^i
             /\ quad.x = (k % 3) * (2^i + 2)
             /\ quad.y = LevelOffset(i) + (IF k > 2 THEN 1 ELSE 0) * (2^i + 2)
             /\ quad.scale = 2^i + 2
             /\ InsideAtlas(Tile(quad))
    /\ \A m, n \in DOMAIN packed :
          m # n => ~Overlap(Tile(packed[m]), Tile(packed[n]))

\* C27: after setup cubeLods[i] has face size 2^i for every i < numLods,
\* whatever the power-of-two size of the source and however many setup calls
\* came before
C27_LodSizes ==
  updates > 0 =>
    \A i \in 0..(numLods - 1) :
       (i + 1) \in DOMAIN cubeLods /\ cubeLods[i + 1].width = 2^i

\* the textures the latest update call rendered from its source
RenderedThisCall == {mipmapPasses[j].target : j \in DOMAIN mipmapPasses}

\* C28: the atlas of update(X) depends only on X: every quad packMipmaps
\* renders samples X's texture or a level generateMipmaps rendered from X in
\* the same call, never the texture of the source of an earlier call
C28_AtlasFromThisSourceOnly ==
  (pmremPc = "idle" /\ packed # <<>>) =>
    \A n \in DOMAIN packed :
       \/ packed[n].envMap = cubeTarget
       \/ packed[n].envMap \in RenderedThisCall

\* C29 as stated: the prompt never becomes visible while camera controls are
\* disabled: with cameraControls false no tick sets promptElementVisible or
\* writes the prompt text to the aria-label, also after a src change
\* processed while the controls are disabled
C29_NoPromptWhileControlsDisabled ==
  [][(last'.op = "tick" /\ ~cameraControls)
     => /\ ~ShowsPrompt(PromptState, now')
        /\ promptElementVisible' => promptElementVisible]_vars

\* C29, amended: while camera controls are disabled the timer is started
\* only by an update that includes src, and the prompt becomes visible only
\* in a tick that found that timer running; disabling the controls stops the
\* timer and hides the prompt
C29_TimerOnlyFromSrcWhileDisabled ==
  [][/\ (~cameraControls' /\ waitingToPromptUser')
        => \/ ~cameraControls /\ waitingToPromptUser
           \/ IsSrcUpdate(last')
     /\ (~cameraControls' /\ promptElementVisible')
        => /\ ~cameraControls
           /\ \/ promptElementVisible
              \/ last'.op = "tick" /\ waitingToPromptUser]_vars

C29_Witness ==
  /\ ~cameraControls
  /\ last.op = "tick" /\ last.pre.waiting /\ ~last.pre.visible
  /\ promptElementVisible
  /\ ariaLabel = INTERACTION_PROMPT

\* C30 as stated: with interactionPrompt = 'when-focused' the prompt never
\* becomes visible unless a focus event has occurred since the last blur,
\* src change or defer, so an element that never received focus never shows
\* the prompt
C30_PromptOnlyAfterFocus ==
  [][(interactionPrompt' = WHEN_FOCUSED
      /\ ~promptElementVisible /\ promptElementVisible')
     => last.focusEvent]_vars

\* C30, amended: with interactionPrompt = 'when-focused' the timer is
\* started only by a focus event or by an update that includes src, and the
\* prompt becomes visible only in a tick that found the timer running
C30_TimerStartsOnFocusOrSrc ==
  [][/\ (interactionPrompt' = WHEN_FOCUSED
         /\ ~waitingToPromptUser /\ waitingToPromptUser')
        => (last'.op = "focus" \/ IsSrcUpdate(last'))
     /\ (interactionPrompt' = WHEN_FOCUSED
         /\ ~promptElementVisible /\ promptElementVisible')
        => (last'.op = "tick" /\ waitingToPromptUser)]_vars

C30_Witness ==
  /\ interactionPrompt = WHEN_FOCUSED
  /\ last.op = "tick" /\ ~last.pre.visible /\ ~last.focusEvent
  /\ ~focused
  /\ promptElementVisible

\* the Hotspot objects in scene.pivot that were made for node
PivotHotspotsOf(node) == {id \in pivotHotspots : hotspots[id].node = node}

\* node is a child of the viewer
IsChild(node) == \E i \in DOMAIN hostChildren : hostChildren[i] = node

\* C31: after any sequence of connect, disconnect, child-added and
\* child-removed events (the element connected, every mutation record
\* delivered) the hotspot map and the scene pivot agree with the DOM: each
\* hotspot child has exactly one Hotspot in scene.pivot, which is the map's
\* value for it, and the pivot holds no Hotspot for an element that is no
\* longer a child, nor a second one for an element registered before
C31_HotspotsAgreeWithDOM ==
  (annotationConnected /\ records = <<>>) =>
    \A node \in Elements :
       IF IsChild(node) /\ IncludesHotspot(ElementSlots[node])
       THEN /\ node \in DOMAIN hotspotMap
            /\ PivotHotspotsOf(node) = {hotspotMap[node]}
       ELSE /\ node \notin DOMAIN hotspotMap
            /\ PivotHotspotsOf(node) = {}

\* the step is a call of updateHotspot
IsUpdateHotspot == updateHotspotResult = NotCalled /\ updateHotspotResult' # NotCalled

\* the Hotspot objects registered for a child whose slot is name
RegisteredFor(name) ==
  {hotspotMap[node] : node \in {n \in DOMAIN hotspotMap :
                                  IsChild(n) /\ ElementSlots[n] = name}}

\* C32: updateHotspot never fails: when no Hotspot is registered for the
\* element with the config's slot name (no such element, an element whose
\* slot does not contain 'hotspot', an element added while the observer was
\* disconnected) the call is a no-op that leaves every hotspot unchanged;
\* otherwise it changes only the position and the normal of that one hotspot
C32_UpdateHotspotNeverFails ==
  [][IsUpdateHotspot =>
       /\ updateHotspotResult'.outcome # "TypeError"
       /\ UNCHANGED <<hotspotMap, pivotHotspots>>
       /\ DOMAIN hotspots' = DOMAIN hotspots
       /\ \A id \in DOMAIN hotspots :
             \/ hotspots'[id] = hotspots[id]
             \/ /\ id \in RegisteredFor(updateHotspotResult'.name)
                /\ hotspots'[id].node = hotspots[id].node
                /\ hotspots'[id].name = hotspots[id].name]_vars

====
